---- MODULE Spec2Model ----
(***************************************************************************)
(* A model of app.py (CodeMap): the sqlite store (user_state, attempts,    *)
(* card_enrichments, card_embeddings, attempt_embeddings), the Streamlit   *)
(* session state and the handlers of the learning page, together with the  *)
(* pure helpers (clamp_int, quiz_level, fallback_quiz, call_oai_json,      *)
(* generate_quiz, save_attempt / list_attempts).                           *)
(*                                                                         *)
(* Text.  A Python str is a sequence of atoms.  An atom is one of the      *)
(* characters JSON gives a meaning to ({ } [ ] , : " \), one whitespace    *)
(* character (" " or "\n"), or a maximal run of other characters (a word   *)
(* or a number); characters outside ASCII are written uXXXX.  No code of   *)
(* app.py looks inside such a run except the title match of fallback_quiz, *)
(* so card titles are kept character by character.                         *)
(*                                                                         *)
(* Python values (the result of json.loads) are records                    *)
(*   [t, n, s, l, k]   t in "null" "bool" "int" "str" "list" "dict"        *)
(* n the int/bool value, s the str content, l the list items or the dict   *)
(* values, k the dict keys (parallel to l).  Optional[X] is <<>> or <<x>>. *)
(***************************************************************************)
EXTENDS Integers, Sequences, FiniteSets, TLC

VARIABLES
    db,     \* the sqlite file: [user_state, base, attempts, card_enrichments,
            \*                   card_embeddings, attempt_embeddings]
    ss,     \* st.session_state of every browser session
    live,   \* the browser sessions that are open
    op,     \* the handler that ran last and what it observed
    fin,    \* input of the helper called (helper specifications); in Spec,
            \* what a behaviour may still do
    fout,   \* its result
    pc      \* "app", or "call" / "done" for a helper specification

vars == <<db, ss, live, op, fin, fout, pc>>

\* ------------------------------------------------------------- Config
LEVEL_MIN == 1
LEVEL_MAX == 100

\* ------------------------------------------------------------- Bounds
MaxSessions == 2
MaxAttempts == 2
MaxFrags == 3
MaxLimit == 3
MaxStoreRows == 3
MaxTextLen == 3
MaxChoice == 1
MaxEnrich == 1
MaxDim == 2

\* ------------------------------------------------------------- Curriculum
\* flatten_cards() over CURRICULUM; title character by character.  The other
\* card fields (step_title, text, allowed, banned) only feed prompts and the
\* snapshot columns of an attempt and are functions of card_id.
ALL_CARDS ==
  << [step_id |-> "S1", card_id |-> "S1-C1", base_level |-> 10,
      title |-> <<"uC2E4", "uD589", " ", "uD750", "uB984", "uACFC", " ", "uCD9C", "uB825", "(", "p", "r", "i", "n", "t", ")">>],
     [step_id |-> "S1", card_id |-> "S1-C2", base_level |-> 15,
      title |-> <<"uC785", "uB825", "(", "i", "n", "p", "u", "t", ")", "uACFC", " ", "uBB38", "uC790", "uC5F4">>],
     [step_id |-> "S2", card_id |-> "S2-C1", base_level |-> 25,
      title |-> <<"uBCC0", "uC218", "(", "uC774", "uB984", "uD45C", ")", "uC640", " ", "uB300", "uC785">>],
     [step_id |-> "S2", card_id |-> "S2-C2", base_level |-> 30,
      title |-> <<"uBB38", "uC790", "uC5F4", "uACFC", " ", "uC22B", "uC790", " ", "uCC28", "uC774">>],
     [step_id |-> "S3", card_id |-> "S3-C1", base_level |-> 45,
      title |-> <<"i", "f", " ", "uAE30", "uBCF8", "uACFC", " ", "uBE44", "uAD50", "(", "=", "=", ")">>],
     [step_id |-> "S4", card_id |-> "S4-C1", base_level |-> 60,
      title |-> <<"f", "o", "r", "uC640", " ", "r", "a", "n", "g", "e", " ", "+", " ", "uB4E4", "uC5EC", "uC4F0", "uAE30">>] >>

NumCards == Len(ALL_CARDS)

\* ------------------------------------------------------------- Utils
Max(a, b) == IF a >= b THEN a ELSE b
Min(a, b) == IF a <= b THEN a ELSE b

\* mutant of clamp_int: the upper bound is not applied
clamp_int_NoUpper(n, lo, hi) == Max(lo, n)

clamp_int(n, lo, hi) == Max(lo, Min(hi, n))

\* Python 3 round() of the exact quotient n/4: to the nearest integer, an
\* exact half to the even neighbour.  (0.75*b + 0.25*u is exact in binary
\* floating point for the integers used here.)
RoundQuarter(n) ==
    LET q == n \div 4
        r == n % 4
    IN  IF r < 2 THEN q
        ELSE IF r > 2 THEN q + 1
        ELSE IF q % 2 = 0 THEN q ELSE q + 1

\* mutant of quiz_level: int() truncation instead of round()
quiz_level_Trunc(card_base_level, char_level) ==
    clamp_int((3 * card_base_level + char_level) \div 4, LEVEL_MIN, LEVEL_MAX)

quiz_level(card_base_level, char_level) ==
    clamp_int(RoundQuarter(3 * card_base_level + char_level), LEVEL_MIN, LEVEL_MAX)

\* ------------------------------------------------------------- Text
WS == {" ", "\n"}

RECURSIVE LStrip(_)
LStrip(s) == IF s # <<>> /\ Head(s) \in WS THEN LStrip(Tail(s)) ELSE s

RECURSIVE RStrip(_)
RStrip(s) ==
    IF s # <<>> /\ s[Len(s)] \in WS THEN RStrip(SubSeq(s, 1, Len(s) - 1)) ELSE s

\* str.strip()
Strip(s) == RStrip(LStrip(s))

\* the Python test  kw in t
Contains(t, kw) ==
    \E i \in 1..(Len(t) - Len(kw) + 1) : SubSeq(t, i, i + Len(kw) - 1) = kw

\* str.find / str.rfind of a one-character string, 1-based; 0 when absent
Find(s, a) ==
    IF \E i \in 1..Len(s) : s[i] = a
    THEN CHOOSE i \in 1..Len(s) : s[i] = a /\ \A j \in 1..(i - 1) : s[j] # a
    ELSE 0

RFind(s, a) ==
    IF \E i \in 1..Len(s) : s[i] = a
    THEN CHOOSE i \in 1..Len(s) : s[i] = a /\ \A j \in (i + 1)..Len(s) : s[j] # a
    ELSE 0

\* list.index(x): position of the first equal element, 0-based
IndexOf(xs, x) ==
    (CHOOSE i \in 1..Len(xs) : xs[i] = x /\ \A j \in 1..(i - 1) : xs[j] # x) - 1

\* ------------------------------------------------------------- Fallback quiz
KwPrint == <<"p", "r", "i", "n", "t">>
KwInput == <<"i", "n", "p", "u", "t">>
KwStr   == <<"uBB38", "uC790", "uC5F4">>
KwIf    == <<"i", "f">>
KwFor   == <<"f", "o", "r">>
KwRange == <<"r", "a", "n", "g", "e">>

QuizPrint ==
  [question |-> <<"uB2E4uC74C", " ", "uCF54uB4DCuC758", " ", "uCD9CuB825", " ", "uC21CuC11CuB294", " ", "uBB34uC5C7uC778uAC00uC694?">>,
   code |-> <<"print('A')", "\n", "print('B')">>,
   choices |-> << <<"A", " ", "uB2E4uC74C", " ", "B">>,
                 <<"B", " ", "uB2E4uC74C", " ", "A">>,
                 <<"uB458uC774", " ", "uC11EuC5ECuC11C", " ", "uB098uC628uB2E4">> >>,
   answer_index |-> 0,
   explanation |-> <<"uC704uC5D0uC11C", " ", "uC544uB798uB85C", " ", "uC2E4uD589uB418uBBC0uB85C", " ", "A", " ", "uB2E4uC74C", " ", "BuC785uB2C8uB2E4.">>]

QuizInput ==
  [question |-> <<"input()uC73CuB85C", " ", "uBC1BuC740", " ", "uAC12uC758", " ", "uC790uB8CCuD615uC740", " ", "uBB34uC5C7uC778uAC00uC694?">>,
   code |-> <<"name", " ", "=", " ", "input('uC774uB984", ":", " ", "')", "\n", "print(name)">>,
   choices |-> << <<"uD56DuC0C1", " ", "uBB38uC790uC5F4(str)">>,
                 <<"uD56DuC0C1", " ", "uC815uC218(int)">>,
                 <<"uC0C1uD669uB9C8uB2E4", " ", "uB2E4uB984">> >>,
   answer_index |-> 0,
   explanation |-> <<"input()uC758", " ", "uACB0uACFCuB294", " ", "uBB38uC790uC5F4uC785uB2C8uB2E4.">>]

QuizStr ==
  [question |-> <<"print('3'", " ", "+", " ", "'4')uC758", " ", "uCD9CuB825uC740?">>,
   code |-> <<"print('3'", " ", "+", " ", "'4')">>,
   choices |-> << <<"7">>, <<"34">>, <<"uC624uB958">> >>,
   answer_index |-> 1,
   explanation |-> <<"uBB38uC790uC5F4uB07CuB9ACuB294", " ", "uACB0uD569uB418uC5B4", " ", "'34'uAC00", " ", "uB429uB2C8uB2E4.">>]

QuizIf ==
  [question |-> <<"uAC19uB2E4", " ", "uBE44uAD50uC5D0", " ", "uC4F0uB294", " ", "uAE30uD638uB294?">>,
   code |-> <<"x", " ", "=", " ", "3", "\n", "if", " ", "x", " ", "==", " ", "3", ":", "\n", " ", " ", " ", " ", "print('uAC19uB2E4')">>,
   choices |-> << <<"=">>, <<"==">>, <<"=>">> >>,
   answer_index |-> 1,
   explanation |-> <<"==uB294", " ", "uBE44uAD50", ",", " ", "=uB294", " ", "uB300uC785uC785uB2C8uB2E4.">>]

QuizFor ==
  [question |-> <<"uB2E4uC74C", " ", "uCF54uB4DCuAC00", " ", "uCD9CuB825uD558uB294", " ", "uC22BuC790", " ", "uC21CuC11CuB294?">>,
   code |-> <<"for", " ", "i", " ", "in", " ", "range(3)", ":", "\n", " ", " ", " ", " ", "print(i)">>,
   choices |-> << <<"0", ",", " ", "1", ",", " ", "2">>,
                 <<"1", ",", " ", "2", ",", " ", "3">>,
                 <<"0", ",", " ", "1", ",", " ", "2", ",", " ", "3">> >>,
   answer_index |-> 0,
   explanation |-> <<"range(3)uC740", " ", "0", ",", "1", ",", "2uB97C", " ", "uB9CCuB4E4uACE0", " ", "uC21CuC11CuB300uB85C", " ", "uCD9CuB825uD569uB2C8uB2E4.">>]

QuizDefault ==
  [question |-> <<"uC774", " ", "uCE74uB4DCuC758", " ", "uD575uC2ECuC740", " ", "uBB34uC5C7uC778uAC00uC694?">>,
   code |-> <<>>,
   choices |-> << <<"uCE74uB4DC", " ", "uBC94uC704", " ", "uC548uC5D0uC11CuB9CC", " ", "uCD9CuC81CuB41CuB2E4">>,
                 <<"uC544uBB34uAC70uB098", " ", "uB098uC62C", " ", "uC218", " ", "uC788uB2E4">> >>,
   answer_index |-> 0,
   explanation |-> <<"uD034uC988uB294", " ", "uCE74uB4DC", " ", "uBC94uC704", " ", "uB0B4uC5D0uC11CuB9CC", " ", "uB098uC635uB2C8uB2E4.">>]

\* mutant of fallback_quiz: the for/range test is dropped
fallback_quiz_NoFor(card) ==
    LET t == card.title
    IN  IF Contains(t, KwPrint) THEN QuizPrint
        ELSE IF Contains(t, KwInput) THEN QuizInput
        ELSE IF Contains(t, KwStr) THEN QuizStr
        ELSE IF Contains(t, KwIf) THEN QuizIf
        ELSE QuizDefault

fallback_quiz(card) ==
    LET t == card.title
    IN  IF Contains(t, KwPrint) THEN QuizPrint
        ELSE IF Contains(t, KwInput) THEN QuizInput
        ELSE IF Contains(t, KwStr) THEN QuizStr
        ELSE IF Contains(t, KwIf) THEN QuizIf
        ELSE IF Contains(t, KwFor) \/ Contains(t, KwRange) THEN QuizFor
        ELSE QuizDefault

\* ------------------------------------------------------------- Python values
PyNone     == [t |-> "null", n |-> 0, s |-> <<>>, l |-> <<>>, k |-> <<>>]
PyBool(b)  == [t |-> "bool", n |-> IF b THEN 1 ELSE 0, s |-> <<>>, l |-> <<>>, k |-> <<>>]
PyInt(i)   == [t |-> "int", n |-> i, s |-> <<>>, l |-> <<>>, k |-> <<>>]
PyStr(a)   == [t |-> "str", n |-> 0, s |-> a, l |-> <<>>, k |-> <<>>]
PyList(xs) == [t |-> "list", n |-> 0, s |-> <<>>, l |-> xs, k |-> <<>>]
PyDict(ks, xs) == [t |-> "dict", n |-> 0, s |-> <<>>, l |-> xs, k |-> ks]

\* the runs of characters that are JSON integers, and their values
NumAtoms == {"-1", "0", "1", "2", "3", "4", "5", "6", "7", "8", "9", "34"}

NumVal(a) ==
    CASE a = "-1" -> 0 - 1
      [] a = "0" -> 0 [] a = "1" -> 1 [] a = "2" -> 2 [] a = "3" -> 3
      [] a = "4" -> 4 [] a = "5" -> 5 [] a = "6" -> 6 [] a = "7" -> 7
      [] a = "8" -> 8 [] a = "9" -> 9 [] a = "34" -> 34

\* str(n) of an int: the run of its digits
IntAtom(i) ==
    IF \E a \in NumAtoms : NumVal(a) = i
    THEN CHOOSE a \in NumAtoms : NumVal(a) = i
    ELSE "int"

\* bool(v): Python truthiness
Truthy(v) ==
    CASE v.t = "null" -> FALSE
      [] v.t = "bool" -> v.n = 1
      [] v.t = "int"  -> v.n # 0
      [] v.t = "str"  -> v.s # <<>>
      [] v.t = "list" -> v.l # <<>>
      [] v.t = "dict" -> v.k # <<>>

\* str(v).  The repr of a list or dict is kept abstract: a non-empty text in
\* its brackets.
Str(v) ==
    CASE v.t = "null" -> <<"None">>
      [] v.t = "bool" -> IF v.n = 1 THEN <<"True">> ELSE <<"False">>
      [] v.t = "int"  -> <<IntAtom(v.n)>>
      [] v.t = "str"  -> v.s
      [] v.t = "list" -> <<"[", "repr", "]">>
      [] v.t = "dict" -> <<"{", "repr", "}">>

\* int(v): [ok, n]; ok = FALSE is the ValueError / TypeError int() raises
ToInt(v) ==
    CASE v.t \in {"int", "bool"} -> [ok |-> TRUE, n |-> v.n]
      [] v.t = "str" ->
            LET b == Strip(v.s)
            IN  IF Len(b) = 1 /\ b[1] \in NumAtoms
                THEN [ok |-> TRUE, n |-> NumVal(b[1])]
                ELSE [ok |-> FALSE, n |-> 0]
      [] OTHER -> [ok |-> FALSE, n |-> 0]

\* dict.get(key, default): json.loads keeps the last value of a repeated key
DictGet(d, key, default) ==
    IF \E i \in 1..Len(d.k) : d.k[i] = key
    THEN d.l[CHOOSE i \in 1..Len(d.k) :
                 d.k[i] = key /\ \A j \in (i + 1)..Len(d.k) : d.k[j] # key]
    ELSE default

\* ------------------------------------------------------------- json
RECURSIVE Esc(_)
Esc(s) ==
    IF s = <<>> THEN <<>>
    ELSE (CASE Head(s) = "\"" -> <<"\\", "\"">>
            [] Head(s) = "\\" -> <<"\\", "\\">>
            [] Head(s) = "\n" -> <<"\\", "n">>
            [] OTHER -> <<Head(s)>>) \o Esc(Tail(s))

RECURSIVE json_dumps(_)
RECURSIVE DumpItems(_)
RECURSIVE DumpMembers(_, _)

\* json.dumps(v, ensure_ascii=False): separators ", " and ": "
json_dumps(v) ==
    CASE v.t = "null" -> <<"null">>
      [] v.t = "bool" -> IF v.n = 1 THEN <<"true">> ELSE <<"false">>
      [] v.t = "int"  -> <<IntAtom(v.n)>>
      [] v.t = "str"  -> <<"\"">> \o Esc(v.s) \o <<"\"">>
      [] v.t = "list" -> <<"[">> \o DumpItems(v.l) \o <<"]">>
      [] v.t = "dict" -> <<"{">> \o DumpMembers(v.k, v.l) \o <<"}">>

DumpItems(xs) ==
    IF xs = <<>> THEN <<>>
    ELSE json_dumps(Head(xs))
         \o (IF Tail(xs) = <<>> THEN <<>> ELSE <<",", " ">> \o DumpItems(Tail(xs)))

DumpMembers(ks, xs) ==
    IF ks = <<>> THEN <<>>
    ELSE <<"\"">> \o Esc(Head(ks)) \o <<"\"", ":", " ">> \o json_dumps(Head(xs))
         \o (IF Tail(ks) = <<>> THEN <<>>
             ELSE <<",", " ">> \o DumpMembers(Tail(ks), Tail(xs)))

PFail == [ok |-> FALSE, v |-> PyNone, next |-> 0]
POk(v, next) == [ok |-> TRUE, v |-> v, next |-> next]

RECURSIVE SkipWs(_, _)
SkipWs(txt, i) ==
    IF i <= Len(txt) /\ txt[i] \in WS THEN SkipWs(txt, i + 1) ELSE i

\* the body of a JSON string from position i (after the opening quote)
RECURSIVE ParseStrBody(_, _, _)
ParseStrBody(txt, i, acc) ==
    IF i > Len(txt) THEN PFail
    ELSE CASE txt[i] = "\"" -> POk(PyStr(acc), i + 1)
           [] txt[i] = "\n" -> PFail
           [] txt[i] = "\\" ->
                 IF i + 1 > Len(txt) THEN PFail
                 ELSE IF txt[i + 1] \in {"\"", "\\"}
                      THEN ParseStrBody(txt, i + 2, Append(acc, txt[i + 1]))
                 ELSE IF txt[i + 1] = "n"
                      THEN ParseStrBody(txt, i + 2, Append(acc, "\n"))
                 ELSE PFail
           [] OTHER -> ParseStrBody(txt, i + 1, Append(acc, txt[i]))

RECURSIVE ParseValue(_, _)
RECURSIVE ParseElems(_, _, _)
RECURSIVE ParseMembers(_, _, _, _)

ParseValue(txt, i0) ==
    LET i == SkipWs(txt, i0)
    IN  IF i > Len(txt) THEN PFail
        ELSE CASE txt[i] = "{" -> ParseMembers(txt, i + 1, <<>>, <<>>)
               [] txt[i] = "[" -> ParseElems(txt, i + 1, <<>>)
               [] txt[i] = "\"" -> ParseStrBody(txt, i + 1, <<>>)
               [] txt[i] \in NumAtoms -> POk(PyInt(NumVal(txt[i])), i + 1)
               [] txt[i] = "true" -> POk(PyBool(TRUE), i + 1)
               [] txt[i] = "false" -> POk(PyBool(FALSE), i + 1)
               [] txt[i] = "null" -> POk(PyNone, i + 1)
               [] OTHER -> PFail

\* (A recursive result is bound once, as the element of a one-element set,
\* then inspected: the parse of a text is never repeated.)
\* the elements of an array from position i0; acc the elements read so far
ParseElems(txt, i0, acc) ==
    LET i == SkipWs(txt, i0)
        after(r) ==
            LET m == SkipWs(txt, r.next)
            IN  IF ~r.ok \/ m > Len(txt) THEN PFail
                ELSE IF txt[m] = "]" THEN POk(PyList(Append(acc, r.v)), m + 1)
                ELSE IF txt[m] = "," THEN ParseElems(txt, m + 1, Append(acc, r.v))
                ELSE PFail
    IN  IF i > Len(txt) THEN PFail
        ELSE IF txt[i] = "]" /\ acc = <<>> THEN POk(PyList(<<>>), i + 1)
        ELSE CHOOSE out \in {after(r) : r \in {ParseValue(txt, i)}} : TRUE

\* the members of an object from position i0
ParseMembers(txt, i0, ks, xs) ==
    LET i == SkipWs(txt, i0)
        afterValue(key, r) ==
            LET m == SkipWs(txt, r.next)
            IN  IF ~r.ok \/ m > Len(txt) THEN PFail
                ELSE IF txt[m] = "}"
                     THEN POk(PyDict(Append(ks, key.v.s), Append(xs, r.v)), m + 1)
                ELSE IF txt[m] = ","
                     THEN ParseMembers(txt, m + 1, Append(ks, key.v.s), Append(xs, r.v))
                ELSE PFail
        afterKey(key) ==
            LET c == SkipWs(txt, key.next)
            IN  IF ~key.ok \/ c > Len(txt) THEN PFail
                ELSE IF txt[c] # ":" THEN PFail
                ELSE CHOOSE out \in {afterValue(key, r) : r \in {ParseValue(txt, c + 1)}} : TRUE
    IN  IF i > Len(txt) THEN PFail
        ELSE IF txt[i] = "}" /\ ks = <<>> THEN POk(PyDict(<<>>, <<>>), i + 1)
        ELSE IF txt[i] # "\"" THEN PFail
        ELSE CHOOSE out \in {afterKey(key) : key \in {ParseStrBody(txt, i + 1, <<>>)}} : TRUE

\* json.loads(txt): [ok, v]; ok = FALSE is the JSONDecodeError it raises
json_loads(txt) ==
    LET result(t, r) ==
            IF r.ok /\ SkipWs(t, r.next) > Len(t)
            THEN [ok |-> TRUE, v |-> r.v]
            ELSE [ok |-> FALSE, v |-> PyNone]
    IN  CHOOSE out \in {result(t, ParseValue(t, 1)) : t \in {txt}} : TRUE

\* ------------------------------------------------------------- OpenAI
\* An external call either raises or answers.  A function result is
\* [exc, ...]: exc = "" when it returned, else the exception that escaped it.
NoExc == ""

\* call_oai_text: the request raises, or the stripped output_text
call_oai_text(resp) ==
    IF resp.raises THEN [exc |-> "APIError", txt |-> <<>>]
    ELSE [exc |-> NoExc, txt |-> Strip(resp.text)]

\* call_oai_json: the call to call_oai_text is outside the try block, so what
\* it raises escapes; only json.loads is guarded.
call_oai_json(resp) ==
    LET r == call_oai_text(resp)
        txt == IF Find(r.txt, "{") # 0 /\ Find(r.txt, "}") # 0
               THEN SubSeq(r.txt, Find(r.txt, "{"), RFind(r.txt, "}"))
               ELSE r.txt
        loaded(p) == [exc |-> NoExc, v |-> IF p.ok THEN p.v ELSE PyNone]
    IN  IF r.exc # NoExc THEN [exc |-> r.exc, v |-> PyNone]
        ELSE CHOOSE out \in {loaded(p) : p \in {json_loads(txt)}} : TRUE

\* embed_text: the whole call is inside try/except; None on any failure
embed_text(emb) == IF emb.raises THEN <<>> ELSE <<emb.vec>>

\* ------------------------------------------------------------- Card enrich + Quiz
EmptyEnrichment == [summary |-> <<>>, easy |-> <<>>, examples |-> <<>>]

enrich_card(resp, card) ==
    LET from(j) ==
            LET data == j.v
                field(key) == Strip(Str(DictGet(data, <<key>>, PyStr(<<>>))))
            IN  IF j.exc # NoExc THEN [exc |-> j.exc, val |-> EmptyEnrichment]
                ELSE IF ~Truthy(data) THEN [exc |-> NoExc, val |-> EmptyEnrichment]
                ELSE IF data.t # "dict"
                     THEN [exc |-> "AttributeError", val |-> EmptyEnrichment]
                ELSE [exc |-> NoExc,
                      val |-> [summary |-> field("summary"), easy |-> field("easy"),
                               examples |-> field("examples")]]
    IN  CHOOSE out \in {from(j) : j \in {call_oai_json(resp)}} : TRUE

\* [str(x) for x in choices]
StrAll(xs) == [i \in 1..Len(xs) |-> Str(xs[i])]

\* mutant of generate_quiz: the question / explanation emptiness test is dropped
generate_quiz_NoEmptyTest(resp, card) ==
    LET from(j) ==
            LET data == j.v
                question == Strip(Str(DictGet(data, <<"question">>, PyStr(<<>>))))
                code == Strip(Str(DictGet(data, <<"code">>, PyStr(<<>>))))
                raw == DictGet(data, <<"choices">>, PyList(<<>>))
                explanation == Strip(Str(DictGet(data, <<"explanation">>, PyStr(<<>>))))
                choices == SubSeq(StrAll(raw.l), 1, Min(5, Len(raw.l)))
                a == ToInt(DictGet(data, <<"answer_index">>, PyInt(0)))
                ans == clamp_int(IF a.ok THEN a.n ELSE 0, 0, Len(choices) - 1)
            IN  IF j.exc # NoExc THEN [exc |-> j.exc, quiz |-> <<>>]
                ELSE IF ~Truthy(data) THEN [exc |-> NoExc, quiz |-> <<fallback_quiz(card)>>]
                ELSE IF data.t # "dict" THEN [exc |-> "AttributeError", quiz |-> <<>>]
                ELSE IF raw.t # "list" \/ Len(raw.l) < 2
                     THEN [exc |-> NoExc, quiz |-> <<fallback_quiz(card)>>]
                ELSE [exc |-> NoExc,
                      quiz |-> <<[question |-> question, code |-> code, choices |-> choices,
                                  answer_index |-> ans, explanation |-> explanation]>>]
    IN  CHOOSE out \in {from(j) : j \in {call_oai_json(resp)}} : TRUE

\* generate_quiz(client, model, card, qlv): qlv and the card's text only shape
\* the prompt; the result depends on the response and, for the fallback, on
\* the card.
generate_quiz(resp, card) ==
    LET from(j) ==
            LET data == j.v
                question == Strip(Str(DictGet(data, <<"question">>, PyStr(<<>>))))
                code == Strip(Str(DictGet(data, <<"code">>, PyStr(<<>>))))
                raw == DictGet(data, <<"choices">>, PyList(<<>>))
                explanation == Strip(Str(DictGet(data, <<"explanation">>, PyStr(<<>>))))
                choices == SubSeq(StrAll(raw.l), 1, Min(5, Len(raw.l)))
                a == ToInt(DictGet(data, <<"answer_index">>, PyInt(0)))
                ans == clamp_int(IF a.ok THEN a.n ELSE 0, 0, Len(choices) - 1)
            IN  IF j.exc # NoExc THEN [exc |-> j.exc, quiz |-> <<>>]
                ELSE IF ~Truthy(data) THEN [exc |-> NoExc, quiz |-> <<fallback_quiz(card)>>]
                ELSE IF data.t # "dict" THEN [exc |-> "AttributeError", quiz |-> <<>>]
                ELSE IF raw.t # "list" \/ Len(raw.l) < 2
                     THEN [exc |-> NoExc, quiz |-> <<fallback_quiz(card)>>]
                ELSE IF question = <<>> \/ explanation = <<>>
                     THEN [exc |-> NoExc, quiz |-> <<fallback_quiz(card)>>]
                ELSE [exc |-> NoExc,
                      quiz |-> <<[question |-> question, code |-> code, choices |-> choices,
                                  answer_index |-> ans, explanation |-> explanation]>>]
    IN  CHOOSE out \in {from(j) : j \in {call_oai_json(resp)}} : TRUE

\* ------------------------------------------------------------- State
Sessions == 1..MaxSessions
CardIds == {ALL_CARDS[i].card_id : i \in 1..NumCards}

\* the database before db_init ever ran: no user_state row, no rows at all
FreshDb ==
    [user_state |-> <<>>,
     base |-> 0,
     attempts |-> <<>>,
     card_enrichments |-> [c \in CardIds |-> <<>>],
     card_embeddings |-> [c \in CardIds |-> <<>>],
     attempt_embeddings |-> {}]

\* st.session_state after the setdefault calls of a session's first run;
\* quiz_for records the card index the quiz was generated at (-1: no quiz)
NewSession ==
    [quiz |-> <<>>, pending_buttons |-> FALSE, last_correct |-> <<>>,
     stop_mode |-> FALSE, show_card_again |-> FALSE,
     openai_api_key |-> FALSE, quiz_for |-> 0 - 1]

NoOp == [name |-> "none", s |-> 0, pos |-> 0, level |-> 0, card |-> 0, exc |-> NoExc]

AppIdle ==
    /\ db = FreshDb
    /\ ss = [s \in Sessions |-> NewSession]
    /\ live = {}
    /\ op = NoOp

AppUnchanged == UNCHANGED <<db, ss, live, op>>

\* ------------------------------------------------------------- DB + Migration
\* mutant of db_init: the singleton row is written on every run
db_init_AlwaysInsert(d) ==
    [d EXCEPT !.user_state = <<[char_level |-> LEVEL_MIN, card_index |-> 0]>>]

\* db_init: CREATE TABLE IF NOT EXISTS leaves existing tables and rows alone
\* (an absent table and an empty one are the same to every query); the
\* user_state row is inserted only when the SELECT finds none.
db_init(d) ==
    IF d.user_state = <<>>
    THEN [d EXCEPT !.user_state = <<[char_level |-> LEVEL_MIN, card_index |-> 0]>>]
    ELSE d

get_user_state(d) ==
    IF d.user_state = <<>>
    THEN [char_level |-> LEVEL_MIN, card_index |-> 0]
    ELSE d.user_state[1]

\* set_user_state: an UPDATE, so nothing happens when the row is absent
set_user_state(d, level, card_index) ==
    IF d.user_state = <<>> THEN d
    ELSE [d EXCEPT !.user_state =
            <<[char_level |-> clamp_int(level, LEVEL_MIN, LEVEL_MAX),
               card_index |-> clamp_int(card_index, 0, Max(0, NumCards - 1))]>>]

\* mutant of upsert_card_enrichment: an empty field keeps the stored text
upsert_card_enrichment_KeepOld(d, card_id, summary, easy, examples) ==
    LET old == IF d.card_enrichments[card_id] = <<>>
               THEN [summary |-> <<>>, easy |-> <<>>, examples |-> <<>>]
               ELSE d.card_enrichments[card_id][1]
    IN  [d EXCEPT !.card_enrichments[card_id] =
            <<[summary |-> IF summary = <<>> THEN old.summary ELSE summary,
               easy |-> IF easy = <<>> THEN old.easy ELSE easy,
               examples |-> IF examples = <<>> THEN old.examples ELSE examples]>>]

\* INSERT OR REPLACE on the primary key card_id
upsert_card_enrichment(d, card_id, summary, easy, examples) ==
    [d EXCEPT !.card_enrichments[card_id] =
        <<[summary |-> summary, easy |-> easy, examples |-> examples]>>]

get_card_enrichment(d, card_id) ==
    IF d.card_enrichments[card_id] = <<>> THEN EmptyEnrichment
    ELSE d.card_enrichments[card_id][1]

\* a Python list of str as a Python value
StrList(xs) == PyList([i \in 1..Len(xs) |-> PyStr(xs[i])])

\* mutant of StoredRow: is_correct is stored as 1 whatever the answer was
StoredRow_AlwaysCorrect(id, row) ==
    [id |-> id,
     card_id |-> row.card_id,
     card_base_level |-> row.card_base_level,
     quiz_level |-> row.quiz_level,
     auto_summary |-> row.auto_summary,
     auto_easy |-> row.auto_easy,
     auto_examples |-> row.auto_examples,
     question |-> row.question,
     code |-> row.code,
     choices_json |-> json_dumps(StrList(row.choices)),
     answer_index |-> row.answer_index,
     explanation |-> row.explanation,
     user_choice_index |-> row.user_choice_index,
     is_correct |-> 1]

\* the columns of an attempts row.  card_id stands for the whole card
\* snapshot (step_id, step_title, card_title, card_text are functions of
\* it); created_at is not modelled.
StoredRow(id, row) ==
    [id |-> id,
     card_id |-> row.card_id,
     card_base_level |-> row.card_base_level,
     quiz_level |-> row.quiz_level,
     auto_summary |-> row.auto_summary,
     auto_easy |-> row.auto_easy,
     auto_examples |-> row.auto_examples,
     question |-> row.question,
     code |-> row.code,
     choices_json |-> json_dumps(StrList(row.choices)),
     answer_index |-> row.answer_index,
     explanation |-> row.explanation,
     user_choice_index |-> row.user_choice_index,
     is_correct |-> IF row.is_correct THEN 1 ELSE 0]

\* the id AUTOINCREMENT gives the next row: rows are never deleted, so one
\* more than the number of rows (base older rows, not spelled out, and
\* those in attempts)
NextAttemptId(d) == d.base + Len(d.attempts) + 1

\* mutant of save_attempt: the new row replaces the newest one
save_attempt_Replace(d, row) ==
    IF d.attempts = <<>>
    THEN [db |-> [d EXCEPT !.attempts = <<StoredRow(d.base + 1, row)>>], id |-> d.base + 1]
    ELSE [db |-> [d EXCEPT !.attempts[Len(d.attempts)] =
                        StoredRow(d.base + Len(d.attempts), row)],
          id |-> d.base + Len(d.attempts)]

\* mutant of save_attempt: answer_index and user_choice_index change places
save_attempt_Swapped(d, row) ==
    [db |-> [d EXCEPT !.attempts = Append(@,
                [StoredRow(NextAttemptId(d), row) EXCEPT
                    !.answer_index = row.user_choice_index,
                    !.user_choice_index = row.answer_index])],
     id |-> NextAttemptId(d)]

\* save_attempt: one INSERT; returns cur.lastrowid
save_attempt(d, row) ==
    [db |-> [d EXCEPT !.attempts = Append(@, StoredRow(NextAttemptId(d), row))],
     id |-> NextAttemptId(d)]

\* a fetched attempts row as list_attempts returns it
ReadRow(r) ==
    [id |-> r.id,
     card_id |-> r.card_id,
     card_base_level |-> r.card_base_level,
     quiz_level |-> r.quiz_level,
     auto_summary |-> r.auto_summary,
     auto_easy |-> r.auto_easy,
     auto_examples |-> r.auto_examples,
     question |-> r.question,
     code |-> r.code,
     choices |-> json_loads(r.choices_json).v,
     answer_index |-> r.answer_index,
     explanation |-> r.explanation,
     user_choice_index |-> r.user_choice_index,
     is_correct |-> (r.is_correct # 0)]

\* mutant of list_attempts: ORDER BY id ASC
list_attempts_OldestFirst(d, limit) ==
    LET n == Len(d.attempts)
        m == Min(n, Max(0, limit - d.base))
        picked == [i \in 1..m |-> d.attempts[i]]
    IN  [exc |-> IF \A i \in 1..m : json_loads(picked[i].choices_json).ok
                 THEN NoExc ELSE "JSONDecodeError",
         rows |-> [i \in 1..m |-> ReadRow(picked[i])],
         old |-> Min(d.base, limit)]

\* list_attempts: ORDER BY id DESC LIMIT limit, each row converted back
\* (json.loads of choices_json, bool of is_correct).  exc is the error
\* json.loads raises on a choices_json that does not parse; old counts the
\* older rows (ids 1..base) that fall inside the limit.
list_attempts(d, limit) ==
    LET n == Len(d.attempts)
        m == Min(n, limit)
        picked == [i \in 1..m |-> d.attempts[n + 1 - i]]
    IN  [exc |-> IF \A i \in 1..m : json_loads(picked[i].choices_json).ok
                 THEN NoExc ELSE "JSONDecodeError",
         rows |-> [i \in 1..m |-> ReadRow(picked[i])],
         old |-> Min(d.base, limit - m)]

\* a list of numbers as a Python value
NumList(vec) == PyList([i \in 1..Len(vec) |-> PyInt(vec[i])])

\* INSERT OR REPLACE on the primary key attempt_id
save_attempt_embedding(d, attempt_id, vec) ==
    [d EXCEPT !.attempt_embeddings =
        {e \in @ : e.attempt_id # attempt_id}
        \cup {[attempt_id |-> attempt_id, vector_json |-> json_dumps(NumList(vec))]}]

\* the stored vector, <<>> (None) when there is no row or it does not parse
ParsedVector(vector_json) ==
    LET p == json_loads(vector_json)
    IN  IF p.ok THEN <<[i \in 1..Len(p.v.l) |-> p.v.l[i].n]>> ELSE <<>>

get_attempt_embedding(d, attempt_id) ==
    IF \E e \in d.attempt_embeddings : e.attempt_id = attempt_id
    THEN ParsedVector((CHOOSE e \in d.attempt_embeddings : e.attempt_id = attempt_id).vector_json)
    ELSE <<>>

save_card_embedding(d, card_id, vec) ==
    [d EXCEPT !.card_embeddings[card_id] = <<json_dumps(NumList(vec))>>]

get_card_embedding(d, card_id) ==
    IF d.card_embeddings[card_id] = <<>> THEN <<>>
    ELSE ParsedVector(d.card_embeddings[card_id][1])

\* ------------------------------------------------------------- Embeddings
\* Vectors are sequences of integers.  A similarity is kept exactly, as
\* [dot, den2] standing for dot / sqrt(den2); the sentinel -1.0 is -1/sqrt(1).
Sentinel == [dot |-> 0 - 1, den2 |-> 1]

RECURSIVE Dot(_, _)
Dot(a, b) == IF a = <<>> THEN 0 ELSE Head(a) * Head(b) + Dot(Tail(a), Tail(b))

\* mutant of cosine_similarity: the zero-norm test is dropped
cosine_similarity_NoNormTest(a, b) ==
    IF a = <<>> \/ b = <<>> \/ Len(a) # Len(b) THEN Sentinel
    ELSE [dot |-> Dot(a, b), den2 |-> Dot(a, a) * Dot(b, b)]

cosine_similarity(a, b) ==
    IF a = <<>> \/ b = <<>> \/ Len(a) # Len(b) THEN Sentinel
    ELSE IF Dot(a, a) <= 0 \/ Dot(b, b) <= 0 THEN Sentinel
    ELSE [dot |-> Dot(a, b), den2 |-> Dot(a, a) * Dot(b, b)]

\* x < y for similarities: compare sign(dot) * dot^2 / den2
SignedSquare(x) == IF x.dot >= 0 THEN x.dot * x.dot ELSE 0 - (x.dot * x.dot)
\* mutant of ScoreLess: the comparison is turned round (an ascending sort)
ScoreLess_Reversed(x, y) == SignedSquare(y) * x.den2 < SignedSquare(x) * y.den2

ScoreLess(x, y) == SignedSquare(x) * y.den2 < SignedSquare(y) * x.den2

\* scored.sort(key=score, reverse=True): stable, highest score first
RECURSIVE InsertScored(_, _)
InsertScored(sorted, e) ==
    IF sorted = <<>> THEN <<e>>
    ELSE IF ScoreLess(Head(sorted).score, e.score) THEN <<e>> \o sorted
    ELSE <<Head(sorted)>> \o InsertScored(Tail(sorted), e)

RECURSIVE SortScored(_)
SortScored(xs) ==
    IF xs = <<>> THEN <<>>
    ELSE CHOOSE out \in {InsertScored(front, xs[Len(xs)]) :
                           front \in {SortScored(SubSeq(xs, 1, Len(xs) - 1))}} : TRUE

\* ensure_card_embedding: nothing when a vector is stored; else one embedding
\* call, saved when it gave a non-empty vector
ensure_card_embedding(d, emb, card) ==
    LET vec == embed_text(emb)
    IN  IF get_card_embedding(d, card.card_id) # <<>> THEN d
        ELSE IF vec # <<>> /\ vec[1] # <<>> THEN save_card_embedding(d, card.card_id, vec[1])
        ELSE d

save_attempt_embedding_if_possible(d, emb, attempt_id) ==
    LET vec == embed_text(emb)
    IN  IF vec # <<>> /\ vec[1] # <<>> THEN save_attempt_embedding(d, attempt_id, vec[1])
        ELSE d

\* recommend_similar_cards: [val, db]; qemb answers the embedding call for the
\* query, cemb the calls ensure_card_embedding makes during this run.  Each
\* card touches only its own card_embeddings row, so the loop is taken card
\* by card on the store it ends with.
recommend_similar_cards(d, qemb, cemb, top_k) ==
    LET qvec == embed_text(qemb)
        RECURSIVE Ensured(_, _)
        Ensured(dd, i) ==
            IF i > NumCards THEN dd
            ELSE CHOOSE out \in {Ensured(x, i + 1) :
                                   x \in {ensure_card_embedding(dd, cemb, ALL_CARDS[i])}} : TRUE
        ranked(d2) ==
            LET has(i) == get_card_embedding(d2, ALL_CARDS[i].card_id) # <<>>
                scoredAt(i) ==
                    [score |-> cosine_similarity(
                                   qvec[1], get_card_embedding(d2, ALL_CARDS[i].card_id)[1]),
                     item |-> ALL_CARDS[i].card_id]
                idx == SelectSeq([i \in 1..NumCards |-> i], has)
                scored == SortScored([j \in 1..Len(idx) |-> scoredAt(idx[j])])
            IN  [val |-> SubSeq(scored, 1, Min(top_k, Len(scored))), db |-> d2]
    IN  IF qvec = <<>> \/ qvec[1] = <<>> THEN [val |-> <<>>, db |-> d]
        ELSE CHOOSE out \in {ranked(d2) : d2 \in {Ensured(d, 1)}} : TRUE

\* recommend_similar_attempts over list_attempts(limit=300)
recommend_similar_attempts(d, qemb, top_k) ==
    LET qvec == embed_text(qemb)
        attempts == list_attempts(d, 300).rows
        has(a) == get_attempt_embedding(d, a.id) # <<>>
        kept == SelectSeq(attempts, has)
        scored == SortScored([j \in 1..Len(kept) |->
                    [score |-> cosine_similarity(qvec[1], get_attempt_embedding(d, kept[j].id)[1]),
                     item |-> kept[j].id]])
    IN  IF qvec = <<>> \/ qvec[1] = <<>> THEN <<>>
        ELSE SubSeq(scored, 1, Min(top_k, Len(scored)))

\* ------------------------------------------------------------- quiz_level, on its own
InitLevel ==
    /\ AppIdle
    /\ pc = "call"
    /\ fin \in [b : LEVEL_MIN..LEVEL_MAX, u : LEVEL_MIN..LEVEL_MAX]
    /\ fout = 0

CallQuizLevel ==
    /\ pc = "call"
    /\ fout' = quiz_level(fin.b, fin.u)
    /\ pc' = "done"
    /\ UNCHANGED fin
    /\ AppUnchanged

SpecLevel == InitLevel /\ [][CallQuizLevel]_vars

\* C8: for base and user levels in [1,100], quiz_level is the integer nearest
\* to (3b+u)/4, an exact half going to the even neighbour (Python's round),
\* and lies in [1,100].
QuizLevelIsRoundedBlend ==
    pc = "done" =>
        LET n == 3 * fin.b + fin.u
        IN  /\ fout \in LEVEL_MIN..LEVEL_MAX
            /\ 4 * fout - n \in (0 - 2)..2
            /\ (n % 4 = 2 => fout % 2 = 0)

\* an exact half that round() takes down to the even neighbour (2.5 -> 2)
QuizLevelHalfDown ==
    pc = "done" /\ (3 * fin.b + fin.u) % 4 = 2 /\ 4 * fout < 3 * fin.b + fin.u

\* ------------------------------------------------------------- fallback_quiz, on its own
Frags == {KwPrint, KwInput, KwStr, KwIf, KwFor, KwRange, <<"x">>, <<" ">>}

RECURSIVE FragTitles(_)
FragTitles(n) ==
    IF n = 0 THEN {<<>>}
    ELSE LET shorter == FragTitles(n - 1)
         IN  shorter \cup {t \o f : t \in shorter, f \in Frags}

Titles == {ALL_CARDS[i].title : i \in 1..NumCards} \cup FragTitles(MaxFrags)

InitFallback ==
    /\ AppIdle
    /\ pc = "call"
    /\ fin \in [title : Titles]
    /\ fout = <<>>

CallFallbackQuiz ==
    /\ pc = "call"
    /\ fout' = <<fallback_quiz(fin)>>
    /\ pc' = "done"
    /\ UNCHANGED fin
    /\ AppUnchanged

SpecFallback == InitFallback /\ [][CallFallbackQuiz]_vars

HasEarlierKeyword(t) ==
    Contains(t, KwPrint) \/ Contains(t, KwInput) \/ Contains(t, KwStr) \/ Contains(t, KwIf)

\* C7 as stated: every title containing "for" or "range" gets the canned
\* range/for question, whatever else it contains.
ForTitleAlwaysForQuiz ==
    (pc = "done" /\ (Contains(fin.title, KwFor) \/ Contains(fin.title, KwRange)))
        => fout = <<QuizFor>>

\* C7 amended: a title containing "for" or "range" and none of "print",
\* "input", uBB38 uC790 uC5F4 (the word for string), "if" gets the canned range/for question.
ForTitleWithoutEarlierKeyword ==
    (pc = "done" /\ (Contains(fin.title, KwFor) \/ Contains(fin.title, KwRange))
                 /\ ~HasEarlierKeyword(fin.title))
        => /\ fout = <<QuizFor>>
           /\ fout[1].answer_index = 0
           /\ fout[1].code = <<"for", " ", "i", " ", "in", " ", "range(3)", ":", "\n",
                               " ", " ", " ", " ", "print(i)">>

\* the catalog's own for/range card (S4-C1) got the range/for question
ForCardGotForQuiz ==
    pc = "done" /\ fin.title = ALL_CARDS[6].title /\ fout = <<QuizFor>>

\* ------------------------------------------------------------- the model's answers
\* every text of at most MaxTextLen atoms over TextAlphabet
TextAlphabet == {"{", "}", "[", "]", "\"", ",", "1", "0", "w", "null"}

RECURSIVE ShortTexts(_)
ShortTexts(n) ==
    IF n = 0 THEN {<<>>}
    ELSE LET shorter == ShortTexts(n - 1)
         IN  shorter \cup {t \o <<a>> : t \in shorter, a \in TextAlphabet}

\* JSON objects with the keys generate_quiz reads, each absent or of some type
ChoiceA == PyStr(<<"a", "\"", "b">>)
ChoiceB == PyStr(<<"b", " ", "c">>)
QuestionOpts == {<<>>, <<PyStr(<<>>)>>, <<PyStr(<<" ">>)>>, <<PyStr(<<"Q?">>)>>, <<PyNone>>}
ChoicesOpts ==
    {<<>>, <<PyStr(<<"ab">>)>>, <<PyList(<<>>)>>, <<PyList(<<ChoiceA>>)>>,
     <<PyList(<<ChoiceA, ChoiceB>>)>>, <<PyList(<<ChoiceB, ChoiceB>>)>>,
     <<PyList(<<ChoiceA, ChoiceB, ChoiceA, ChoiceB, ChoiceA, ChoiceB>>)>>,
     <<PyList(<<PyInt(1), PyNone>>)>>}
AnswerOpts ==
    {<<>>, <<PyInt(0)>>, <<PyInt(1)>>, <<PyInt(7)>>, <<PyInt(0 - 1)>>,
     <<PyStr(<<"1">>)>>, <<PyStr(<<"x">>)>>, <<PyNone>>}
ExplanationOpts == {<<>>, <<PyStr(<<>>)>>, <<PyStr(<<"E", "\n">>)>>}
CodeOpts == {<<>>, <<PyStr(<<"c", "\n", "d">>)>>}

Member(key, o) == IF o = <<>> THEN [k |-> <<>>, l |-> <<>>] ELSE [k |-> <<<<key>>>>, l |-> o]

QuizObject(q, ch, a, e, c) ==
    LET mq == Member("question", q)
        mc == Member("code", c)
        mch == Member("choices", ch)
        ma == Member("answer_index", a)
        me == Member("explanation", e)
    IN  PyDict(mq.k \o mc.k \o mch.k \o ma.k \o me.k, mq.l \o mc.l \o mch.l \o ma.l \o me.l)

QuizObjects ==
    {QuizObject(q, ch, a, e, c) :
        q \in QuestionOpts, ch \in ChoicesOpts, a \in AnswerOpts,
        e \in ExplanationOpts, c \in CodeOpts}

EnrichObjects ==
    {PyDict(<< <<"summary">>, <<"easy">>, <<"examples">> >>, <<x, PyStr(<<" ", "e", " ">>), y>>) :
        x \in {PyStr(<<"S">>), PyNone}, y \in {PyStr(<<>>), PyInt(1)}}
    \cup {PyDict(<< <<"summary">> >>, << PyStr(<<"S">>) >>)}

\* attempt_row dicts as the submit handler builds them
StoreChoices ==
    {<<ChoiceA.s, ChoiceB.s>>, <<ChoiceB.s, ChoiceB.s>>, QuizFor.choices}

StoreRowInputs ==
    {[card_id |-> "S4-C1", card_base_level |-> 60, quiz_level |-> 45,
      auto_summary |-> <<>>, auto_easy |-> <<>>, auto_examples |-> <<>>,
      question |-> <<"Q?">>, code |-> <<"c", "\n", "d">>, choices |-> ch,
      answer_index |-> a.ans, explanation |-> <<"E">>,
      user_choice_index |-> a.usr, is_correct |-> (a.ans = a.usr)] :
        ch \in StoreChoices,
        a \in {[ans |-> 0, usr |-> 0], [ans |-> 1, usr |-> 0], [ans |-> 0, usr |-> 1]}}

\* the ways a model wraps its JSON: bare, in prose, in a list, twice
Wrapped(t) ==
    {t, <<"Sure", ":", " ">> \o t \o <<" ", "done">>, <<"[">> \o t \o <<"]">>,
     t \o <<",">> \o t}

Responses ==
    {[raises |-> TRUE, text |-> <<>>]}
    \cup {[raises |-> FALSE, text |-> t] : t \in ShortTexts(MaxTextLen)}
    \cup {[raises |-> FALSE, text |-> t] :
            t \in UNION {Wrapped(json_dumps(o)) : o \in QuizObjects \cup EnrichObjects}}

\* ------------------------------------------------------------- the generators, on their own
\* what the embedding call does: it raises, or answers a vector
Vectors == {<<>>, <<1>>, <<1, 0>>, <<0, 1>>, <<1, 1>>, <<0 - 1, 0>>, <<0, 0>>}
EmbRaises == [raises |-> TRUE, vec |-> <<>>]
EmbOutcomes == {EmbRaises} \cup {[raises |-> FALSE, vec |-> v] : v \in Vectors}

\* stores for the recommendation functions: vectors stored for some of the
\* first three cards, two attempts with or without a stored vector
StoredVectors == {<<>>, <<<<1, 0>>>>, <<<<0, 1>>>>}

RecStore(c1, c2, c3, a1, a2) ==
    LET row == CHOOSE r \in StoreRowInputs : r.choices = QuizFor.choices /\ r.is_correct
        d0 == db_init(FreshDb)
        d1 == IF c1 = <<>> THEN d0 ELSE save_card_embedding(d0, ALL_CARDS[1].card_id, c1[1])
        d2 == IF c2 = <<>> THEN d1 ELSE save_card_embedding(d1, ALL_CARDS[2].card_id, c2[1])
        d3 == IF c3 = <<>> THEN d2 ELSE save_card_embedding(d2, ALL_CARDS[3].card_id, c3[1])
        d4 == save_attempt(save_attempt(d3, row).db, row).db
        d5 == IF a1 = <<>> THEN d4 ELSE save_attempt_embedding(d4, 1, a1[1])
    IN  IF a2 = <<>> THEN d5 ELSE save_attempt_embedding(d5, 2, a2[1])

RecStores ==
    {RecStore(c1, c2, c3, a1, a2) :
        c1 \in StoredVectors, c2 \in StoredVectors, c3 \in StoredVectors,
        a1 \in StoredVectors, a2 \in StoredVectors}

\* fin.kind = "text": a card and an answer of the text-generation call;
\* fin.kind = "embed": the answers of the embedding calls (emb for the text
\* or query, cemb for the calls ensure_card_embedding makes) over a store.
InitQuiz ==
    /\ ss = [s \in Sessions |-> NewSession]
    /\ live = {}
    /\ op = NoOp
    /\ pc = "call"
    /\ fout = [fn |-> "none"]
    /\ \/ /\ db = FreshDb
          /\ fin \in [kind : {"text"}, card : 1..NumCards, resp : Responses]
       \/ /\ db \in RecStores
          /\ fin \in [kind : {"embed"}, emb : EmbOutcomes,
                      cemb : {EmbRaises, [raises |-> FALSE, vec |-> <<>>],
                              [raises |-> FALSE, vec |-> <<1, 1>>]}]

CallOaiJson ==
    /\ pc = "call"
    /\ fin.kind = "text"
    /\ fout' = [fn |-> "call_oai_json", r |-> call_oai_json(fin.resp)]
    /\ pc' = "done"
    /\ UNCHANGED fin
    /\ AppUnchanged

CallEnrichCard ==
    /\ pc = "call"
    /\ fin.kind = "text"
    /\ fout' = [fn |-> "enrich_card", r |-> enrich_card(fin.resp, ALL_CARDS[fin.card])]
    /\ pc' = "done"
    /\ UNCHANGED fin
    /\ AppUnchanged

CallGenerateQuiz ==
    /\ pc = "call"
    /\ fin.kind = "text"
    /\ fout' = [fn |-> "generate_quiz", r |-> generate_quiz(fin.resp, ALL_CARDS[fin.card])]
    /\ pc' = "done"
    /\ UNCHANGED fin
    /\ AppUnchanged

\* the branch of the quiz buttons taken without a client
CallFallbackOnly ==
    /\ pc = "call"
    /\ fin.kind = "text"
    /\ fout' = [fn |-> "fallback_quiz",
                r |-> [exc |-> NoExc, quiz |-> <<fallback_quiz(ALL_CARDS[fin.card])>>]]
    /\ pc' = "done"
    /\ UNCHANGED fin
    /\ AppUnchanged

CallEmbedText ==
    /\ pc = "call"
    /\ fin.kind = "embed"
    /\ fout' = [fn |-> "embed_text", r |-> embed_text(fin.emb)]
    /\ pc' = "done"
    /\ UNCHANGED <<fin, db, ss, live, op>>

\* the review page asks for the 3 best
CallRecommendCards ==
    /\ pc = "call"
    /\ fin.kind = "embed"
    /\ LET r == recommend_similar_cards(db, fin.emb, fin.cemb, 3)
       IN  /\ fout' = [fn |-> "recommend_similar_cards", r |-> r.val]
           /\ db' = r.db
    /\ pc' = "done"
    /\ UNCHANGED <<fin, ss, live, op>>

CallRecommendAttempts ==
    /\ pc = "call"
    /\ fin.kind = "embed"
    /\ fout' = [fn |-> "recommend_similar_attempts",
                r |-> recommend_similar_attempts(db, fin.emb, 3)]
    /\ pc' = "done"
    /\ UNCHANGED <<fin, db, ss, live, op>>

NextQuiz ==
    \/ CallOaiJson
    \/ CallEnrichCard
    \/ CallGenerateQuiz
    \/ CallFallbackOnly
    \/ CallEmbedText
    \/ CallRecommendCards
    \/ CallRecommendAttempts

SpecQuiz == InitQuiz /\ [][NextQuiz]_vars

ValidQuiz(q) ==
    /\ Len(q.choices) >= 2
    /\ q.answer_index \in 0..(Len(q.choices) - 1)
    /\ q.question # <<>>
    /\ q.explanation # <<>>

\* C5: every quiz generate_quiz or fallback_quiz returns has at least 2
\* choices, an answer_index inside the choices, a non-empty question and a
\* non-empty explanation.
ReturnedQuizIsValid ==
    (pc = "done" /\ fin.kind = "text" /\ fout.fn \in {"generate_quiz", "fallback_quiz"} /\ fout.r.exc = NoExc)
        => (fout.r.quiz # <<>> /\ ValidQuiz(fout.r.quiz[1]))

\* generate_quiz built a quiz of its own from an answer whose answer_index
\* (7) lies outside the choices, and clamped it to the last choice
GeneratedQuizClamped ==
    /\ pc = "done" /\ fout.fn = "generate_quiz" /\ fout.r.exc = NoExc
    /\ fout.r.quiz # <<fallback_quiz(ALL_CARDS[fin.card])>>
    /\ call_oai_json(fin.resp).v.t = "dict"
    /\ DictGet(call_oai_json(fin.resp).v, <<"answer_index">>, PyInt(0)) = PyInt(7)
    /\ fout.r.quiz[1].answer_index = Len(fout.r.quiz[1].choices) - 1

\* what C6 calls malformed output: the answer does not parse to a JSON
\* object, or its "choices" is not a list of at least 2 items
Malformed(resp) ==
    LET v == call_oai_json(resp).v
        ch == DictGet(v, <<"choices">>, PyList(<<>>))
    IN  \/ v.t # "dict"
        \/ ch.t # "list"
        \/ Len(ch.l) < 2

\* C6: on malformed output generate_quiz returns exactly fallback_quiz(card)
\* and raises nothing.
MalformedGivesFallback ==
    (pc = "done" /\ fout.fn = "generate_quiz" /\ ~fin.resp.raises /\ Malformed(fin.resp))
        => fout.r = [exc |-> NoExc, quiz |-> <<fallback_quiz(ALL_CARDS[fin.card])>>]

\* ------------------------------------------------------------- the attempts table, on its own
\* fin: the rows saved so far, each with the id save_attempt returned
InitStore ==
    /\ db = db_init(FreshDb)
    /\ ss = [s \in Sessions |-> NewSession]
    /\ live = {}
    /\ op = NoOp
    /\ pc = "call"
    /\ fin = <<>>
    /\ fout = [fn |-> "none"]

CallSaveAttempt ==
    /\ Len(db.attempts) < MaxStoreRows
    /\ \E row \in StoreRowInputs :
          LET r == save_attempt(db, row)
          IN  /\ db' = r.db
              /\ fin' = Append(fin, [row |-> row, id |-> r.id])
              /\ fout' = [fn |-> "save_attempt", id |-> r.id]
    /\ pc' = "saved"
    /\ UNCHANGED <<ss, live, op>>

CallListAttempts ==
    /\ \E limit \in 1..MaxLimit :
          fout' = [fn |-> "list_attempts", limit |-> limit, r |-> list_attempts(db, limit)]
    /\ pc' = "listed"
    /\ UNCHANGED <<db, ss, live, op, fin>>

NextStore == CallSaveAttempt \/ CallListAttempts

SpecStore == InitStore /\ [][NextStore]_vars

\* the entry of a listing that has id k and the quiz fields of row
ListedAs(listing, k, row) ==
    \E i \in 1..Len(listing.rows) :
        LET e == listing.rows[i]
        IN  /\ e.id = k
            /\ e.question = row.question
            /\ e.code = row.code
            /\ e.choices = StrList(row.choices)
            /\ e.answer_index = row.answer_index
            /\ e.user_choice_index = row.user_choice_index
            /\ e.is_correct = row.is_correct

\* C9 as stated: every saved row is found again, identical, in any later
\* list_attempts, however many attempts were saved after it.
SavedRowAlwaysListed ==
    (pc = "listed") =>
        \A j \in 1..Len(fin) :
            fout.r.exc = NoExc /\ ListedAs(fout.r, fin[j].id, fin[j].row)

\* C9 amended: a saved row is found again, identical, in every later
\* list_attempts(limit) as long as fewer than limit attempts were saved after
\* it.
SavedRowListedWithinLimit ==
    (pc = "listed") =>
        \A j \in 1..Len(fin) :
            (Len(fin) - j < fout.limit)
                => (fout.r.exc = NoExc /\ ListedAs(fout.r, fin[j].id, fin[j].row))

\* a row whose choices need escaping was saved, another attempt was saved
\* after it, and a listing wide enough returned it unchanged
OlderRowListed ==
    /\ pc = "listed"
    /\ Len(fin) >= 2
    /\ fout.limit >= 2
    /\ fin[Len(fin) - 1].row.choices = <<ChoiceA.s, ChoiceB.s>>
    /\ ~fin[Len(fin) - 1].row.is_correct
    /\ ListedAs(fout.r, fin[Len(fin) - 1].id, fin[Len(fin) - 1].row)

\* C4: a failure of an external call never escapes as an exception: with the
\* text-generation call raising, generate_quiz returns the fallback quiz,
\* enrich_card the empty enrichment and call_oai_json None; with the embedding
\* call raising, embed_text returns None and the recommend functions [].
ExternalFailureNeverPropagates ==
    (pc = "done") =>
        /\ (fout.fn = "generate_quiz" /\ fin.resp.raises)
              => fout.r = [exc |-> NoExc, quiz |-> <<fallback_quiz(ALL_CARDS[fin.card])>>]
        /\ (fout.fn = "enrich_card" /\ fin.resp.raises)
              => fout.r = [exc |-> NoExc, val |-> EmptyEnrichment]
        /\ (fout.fn = "call_oai_json" /\ fin.resp.raises)
              => fout.r = [exc |-> NoExc, v |-> PyNone]
        /\ (fout.fn = "embed_text" /\ fin.emb.raises) => fout.r = <<>>
        /\ (fout.fn \in {"recommend_similar_cards", "recommend_similar_attempts"}
               /\ fin.emb.raises) => fout.r = <<>>

\* ------------------------------------------------------------- the application
\* One step is one run of the script for one browser session: db_init(), the
\* state load, and the handler of the widget the user touched.  A button can
\* be pressed when the session state makes the script render it; the page
\* radio and the sidebar inputs are rendered on every run, so a run that only
\* redraws (Rerun) can come between any two presses.  Runs of the script do
\* not overlap.  fin holds what a behaviour may still do: sessions to open
\* (one in Spec) and enrichment records to write.

\* what the text-generation call answers to the quiz prompt in the app
AppQuizResponses ==
    {[raises |-> TRUE, text |-> <<>>],
     [raises |-> FALSE, text |-> <<"1">>],
     [raises |-> FALSE, text |-> <<"sorry">>],
     [raises |-> FALSE,
      text |-> json_dumps(QuizObject(<<PyStr(<<"Q?">>)>>, <<PyList(<<ChoiceB, ChoiceB>>)>>,
                                     <<PyInt(1)>>, <<PyStr(<<"E">>)>>, <<>>))]}

\* ... and to the enrichment prompt
AppEnrichResponses ==
    {[raises |-> TRUE, text |-> <<>>],
     [raises |-> FALSE, text |-> <<"sorry">>],
     [raises |-> FALSE,
      text |-> json_dumps(PyDict(<< <<"summary">>, <<"easy">> >>,
                                 <<PyStr(<<"S">>), PyStr(<<" ", "e">>)>>))]}

\* what the embedding calls of one run answer in the app: the service is
\* down, or it answers
AppEmbOutcomes == {EmbRaises, [raises |-> FALSE, vec |-> <<1, 0>>]}

\* a store left by earlier use: base correct attempts took the level to
\* base + 1, one below the cap, and the learner to the last card but one
AgedDbs ==
    {[FreshDb EXCEPT !.user_state = <<[char_level |-> lv, card_index |-> ci]>>,
                     !.base = lv - 1] :
        lv \in {LEVEL_MAX - 1}, ci \in {NumCards - 2}}

Init ==
    /\ db \in {FreshDb} \cup AgedDbs
    /\ ss = [s \in Sessions |-> NewSession]
    /\ live = {}
    /\ op = NoOp
    /\ fin = [sessions |-> 1, enrich |-> MaxEnrich]
    /\ fout = <<>>
    /\ pc = "app"

\* get_client_and_model: a client exists when the session has an API key
HasClient(s) == ss[s].openai_api_key

\* the learning page's state load: the stored index, clamped into the catalog
CurrentCardIndex(d) == clamp_int(get_user_state(d).card_index, 0, NumCards - 1)

\* the record of a run: the handler, the session, the option position the
\* user had selected, the level and card index the run loaded, and the
\* exception that ended it
Ran(name, s, pos, d, exc) ==
    [name |-> name, s |-> s, pos |-> pos, level |-> get_user_state(d).char_level,
     card |-> CurrentCardIndex(d), exc |-> exc]

\* the first run of the script in a new browser session
Open(s) ==
    /\ pc = "app"
    /\ s \notin live
    /\ s = Cardinality(live) + 1
    /\ Cardinality(live) < fin.sessions
    /\ db' = db_init(db)
    /\ ss' = [ss EXCEPT ![s] = NewSession]
    /\ live' = live \cup {s}
    /\ op' = Ran("Open", s, 0, db_init(db), NoExc)
    /\ UNCHANGED <<fin, fout, pc>>

\* a run that handles no button: a page change to the learning or storage
\* page, the model input, the "load generated content" button
Rerun(s) ==
    /\ pc = "app"
    /\ s \in live
    /\ db' = db_init(db)
    /\ op' = Ran("Rerun", s, 0, db_init(db), NoExc)
    /\ UNCHANGED <<ss, live, fin, fout, pc>>

\* the API key input of the sidebar: a key is entered or cleared
SetKey(s) ==
    /\ pc = "app"
    /\ s \in live
    /\ db' = db_init(db)
    /\ ss' = [ss EXCEPT ![s].openai_api_key = ~@]
    /\ op' = Ran("SetKey", s, 0, db_init(db), NoExc)
    /\ UNCHANGED <<live, fin, fout, pc>>

\* "restart learning", the only button of the stopped learning page
Restart(s) ==
    /\ pc = "app"
    /\ s \in live
    /\ ss[s].stop_mode
    /\ db' = db_init(db)
    /\ ss' = [ss EXCEPT ![s].stop_mode = FALSE, ![s].quiz = <<>>,
                        ![s].pending_buttons = FALSE, ![s].last_correct = <<>>,
                        ![s].show_card_again = FALSE, ![s].quiz_for = 0 - 1]
    /\ op' = Ran("Restart", s, 0, db_init(db), NoExc)
    /\ UNCHANGED <<live, fin, fout, pc>>

\* "generate summary / easy explanation / examples": without a client a warning and nothing
\* else; an exception out of enrich_card ends the run before the upsert
RegenerateEnrichment(s) ==
    /\ pc = "app"
    /\ s \in live
    /\ ~ss[s].stop_mode
    /\ \E resp \in AppEnrichResponses :
          LET d0 == db_init(db)
              card == ALL_CARDS[CurrentCardIndex(d0) + 1]
              data == enrich_card(resp, card)
              written == HasClient(s) /\ data.exc = NoExc
          IN  /\ written => fin.enrich > 0
              /\ db' = IF written
                       THEN upsert_card_enrichment(d0, card.card_id, data.val.summary,
                                                   data.val.easy, data.val.examples)
                       ELSE d0
              /\ fin' = IF written THEN [fin EXCEPT !.enrich = @ - 1] ELSE fin
              /\ op' = Ran("RegenerateEnrichment", s, 0, d0,
                           IF HasClient(s) THEN data.exc ELSE NoExc)
    /\ UNCHANGED <<ss, live, fout, pc>>

\* "reset generated content"
ResetEnrichment(s) ==
    /\ pc = "app"
    /\ s \in live
    /\ ~ss[s].stop_mode
    /\ fin.enrich > 0
    /\ LET d0 == db_init(db)
           card == ALL_CARDS[CurrentCardIndex(d0) + 1]
       IN  /\ db' = upsert_card_enrichment(d0, card.card_id, <<>>, <<>>, <<>>)
           /\ op' = Ran("ResetEnrichment", s, 0, d0, NoExc)
    /\ fin' = [fin EXCEPT !.enrich = @ - 1]
    /\ UNCHANGED <<ss, live, fout, pc>>

\* the body shared by the three quiz buttons: generate_quiz with a client,
\* fallback_quiz without; an exception leaves the session state as it was
CreateQuiz(name, s) ==
    \E resp \in AppQuizResponses :
        LET d0 == db_init(db)
            card == ALL_CARDS[CurrentCardIndex(d0) + 1]
        IN  \E r \in {IF HasClient(s) THEN generate_quiz(resp, card)
                      ELSE [exc |-> NoExc, quiz |-> <<fallback_quiz(card)>>]} :
                /\ db' = d0
                /\ ss' = IF r.exc # NoExc THEN ss
                         ELSE [ss EXCEPT ![s].quiz = r.quiz, ![s].pending_buttons = FALSE,
                                         ![s].last_correct = <<>>,
                                         ![s].show_card_again = FALSE,
                                         ![s].quiz_for = CurrentCardIndex(d0)]
                /\ op' = Ran(name, s, 0, d0, r.exc)

\* "make a question"
MakeQuiz(s) ==
    /\ pc = "app"
    /\ s \in live
    /\ ~ss[s].stop_mode
    /\ ss[s].quiz = <<>>
    /\ CreateQuiz("MakeQuiz", s)
    /\ UNCHANGED <<live, fin, fout, pc>>

\* "another question on the same card" next to it
AnotherQuiz(s) ==
    /\ pc = "app"
    /\ s \in live
    /\ ~ss[s].stop_mode
    /\ ss[s].quiz = <<>>
    /\ CreateQuiz("AnotherQuiz", s)
    /\ UNCHANGED <<live, fin, fout, pc>>

\* the submit button with the radio on the option at position p (0-based).  The radio
\* hands the handler the option's text, and the handler looks the text up.
Submit(s, p) ==
    /\ pc = "app"
    /\ s \in live
    /\ ~ss[s].stop_mode
    /\ ss[s].quiz # <<>>
    /\ Len(db.attempts) < MaxAttempts
    /\ p \in 0..(Len(ss[s].quiz[1].choices) - 1)
    /\ \E e \in AppEmbOutcomes :
          LET d0 == db_init(db)
              char_level == get_user_state(d0).char_level
              card_index == CurrentCardIndex(d0)
              card == ALL_CARDS[card_index + 1]
              enrich == get_card_enrichment(d0, card.card_id)
              q == ss[s].quiz[1]
              choice == q.choices[p + 1]
              user_choice_index == IndexOf(q.choices, choice)
              correct == (user_choice_index = q.answer_index)
              attempt_row ==
                  [card_id |-> card.card_id, card_base_level |-> card.base_level,
                   quiz_level |-> quiz_level(card.base_level, char_level),
                   auto_summary |-> enrich.summary, auto_easy |-> enrich.easy,
                   auto_examples |-> enrich.examples,
                   question |-> q.question, code |-> q.code, choices |-> q.choices,
                   answer_index |-> q.answer_index, explanation |-> q.explanation,
                   user_choice_index |-> user_choice_index, is_correct |-> correct]
              saved == save_attempt(d0, attempt_row)
              d1 == IF HasClient(s)
                    THEN save_attempt_embedding_if_possible(
                             ensure_card_embedding(saved.db, e, card), e, saved.id)
                    ELSE saved.db
              new_level == IF correct THEN clamp_int(char_level + 1, LEVEL_MIN, LEVEL_MAX)
                           ELSE char_level
          IN  /\ db' = set_user_state(d1, new_level, card_index)
              /\ ss' = [ss EXCEPT ![s].last_correct = <<correct>>,
                                  ![s].pending_buttons = TRUE]
              /\ op' = Ran("Submit", s, p, d0, NoExc)
    /\ UNCHANGED <<live, fin, fout, pc>>

\* mutant of NextCard: after the last card the index starts again at 0
NextCard_Wraps(s) ==
    /\ pc = "app"
    /\ s \in live
    /\ ~ss[s].stop_mode
    /\ ss[s].quiz # <<>>
    /\ ss[s].pending_buttons
    /\ ss[s].last_correct = <<TRUE>>
    /\ LET d0 == db_init(db)
           next_index == (CurrentCardIndex(d0) + 1) % NumCards
       IN  /\ db' = set_user_state(d0, get_user_state(d0).char_level, next_index)
           /\ op' = Ran("NextCard", s, 0, d0, NoExc)
    /\ ss' = [ss EXCEPT ![s].quiz = <<>>, ![s].pending_buttons = FALSE,
                        ![s].last_correct = <<>>, ![s].show_card_again = FALSE,
                        ![s].quiz_for = 0 - 1]
    /\ UNCHANGED <<live, fin, fout, pc>>

\* "go on to the next concept", shown after a correct answer
NextCard(s) ==
    /\ pc = "app"
    /\ s \in live
    /\ ~ss[s].stop_mode
    /\ ss[s].quiz # <<>>
    /\ ss[s].pending_buttons
    /\ ss[s].last_correct = <<TRUE>>
    /\ LET d0 == db_init(db)
           next_index == clamp_int(CurrentCardIndex(d0) + 1, 0, NumCards - 1)
       IN  /\ db' = set_user_state(d0, get_user_state(d0).char_level, next_index)
           /\ op' = Ran("NextCard", s, 0, d0, NoExc)
    /\ ss' = [ss EXCEPT ![s].quiz = <<>>, ![s].pending_buttons = FALSE,
                        ![s].last_correct = <<>>, ![s].show_card_again = FALSE,
                        ![s].quiz_for = 0 - 1]
    /\ UNCHANGED <<live, fin, fout, pc>>

\* "stop learning", shown after a correct and after a wrong answer
StopLearning(s) ==
    /\ pc = "app"
    /\ s \in live
    /\ ~ss[s].stop_mode
    /\ ss[s].quiz # <<>>
    /\ ss[s].pending_buttons
    /\ ss[s].last_correct # <<>>
    /\ db' = db_init(db)
    /\ ss' = [ss EXCEPT ![s].stop_mode = TRUE]
    /\ op' = Ran("StopLearning", s, 0, db_init(db), NoExc)
    /\ UNCHANGED <<live, fin, fout, pc>>

\* "view the same card again", shown after a wrong answer
ViewAgain(s) ==
    /\ pc = "app"
    /\ s \in live
    /\ ~ss[s].stop_mode
    /\ ss[s].quiz # <<>>
    /\ ss[s].pending_buttons
    /\ ss[s].last_correct = <<FALSE>>
    /\ db' = db_init(db)
    /\ ss' = [ss EXCEPT ![s].show_card_again = TRUE, ![s].pending_buttons = FALSE]
    /\ op' = Ran("ViewAgain", s, 0, db_init(db), NoExc)
    /\ UNCHANGED <<live, fin, fout, pc>>

\* "another question on the same card", shown after a wrong answer
AnotherAfterWrong(s) ==
    /\ pc = "app"
    /\ s \in live
    /\ ~ss[s].stop_mode
    /\ ss[s].quiz # <<>>
    /\ ss[s].pending_buttons
    /\ ss[s].last_correct = <<FALSE>>
    /\ CreateQuiz("AnotherAfterWrong", s)
    /\ UNCHANGED <<live, fin, fout, pc>>

\* the review page: with a client and a wrong answer among the last 200
\* attempts, recommend_similar_cards stores the card vectors it obtains;
\* recommend_similar_attempts only reads
ReviewPage(s) ==
    /\ pc = "app"
    /\ s \in live
    /\ \E e \in AppEmbOutcomes :
          LET d0 == db_init(db)
              attempts == list_attempts(d0, 200).rows
              wrongs == SelectSeq(attempts, LAMBDA a : ~a.is_correct)
          IN  /\ db' = IF ~HasClient(s) \/ wrongs = <<>> THEN d0
                       ELSE recommend_similar_cards(d0, e, e, 3).db
              /\ op' = Ran("ReviewPage", s, 0, d0, NoExc)
    /\ UNCHANGED <<ss, live, fin, fout, pc>>

Next ==
    \E s \in Sessions :
        \/ Open(s)
        \/ Rerun(s)
        \/ SetKey(s)
        \/ Restart(s)
        \/ RegenerateEnrichment(s)
        \/ ResetEnrichment(s)
        \/ MakeQuiz(s)
        \/ AnotherQuiz(s)
        \/ \E p \in 0..MaxChoice : Submit(s, p)
        \/ NextCard(s)
        \/ StopLearning(s)
        \/ ViewAgain(s)
        \/ AnotherAfterWrong(s)
        \/ ReviewPage(s)

Spec == Init /\ [][Next]_vars

\* C1: after every submission, if the option the user selected is the correct
\* one (the option at position answer_index) the stored level is
\* min(100, level before + 1), and otherwise it is the level before.
SubmitUpdatesLevel ==
    (pc = "app" /\ op.name = "Submit") =>
        LET q == ss[op.s].quiz[1]
            stored == get_user_state(db).char_level
        IN  IF op.pos = q.answer_index
            THEN stored = Min(LEVEL_MAX, op.level + 1)
            ELSE stored = op.level

\* C2: once db_init has run, the user_state row exists with
\* 1 <= char_level <= 100 and 0 <= card_index <= len(ALL_CARDS) - 1, and the
\* index that picks the current card is inside the catalog.
StoredStateInRange ==
    (pc = "app" /\ live # {}) =>
        /\ db.user_state # <<>>
        /\ db.user_state[1].char_level \in LEVEL_MIN..LEVEL_MAX
        /\ db.user_state[1].card_index \in 0..(NumCards - 1)
        /\ CurrentCardIndex(db) \in 0..(NumCards - 1)

\* a correct answer on the last card, given at level 100, left the level at 100
LevelHeldAtCap ==
    /\ pc = "app"
    /\ op.name = "Submit"
    /\ op.level = LEVEL_MAX
    /\ op.card = NumCards - 1
    /\ ss[op.s].last_correct = <<TRUE>>
    /\ db.user_state = <<[char_level |-> LEVEL_MAX, card_index |-> NumCards - 1]>>

\* C3: the attempts log is append-only: no step of the application removes an
\* attempt row or changes a field of one.
AttemptsAppendOnly ==
    [][/\ db'.base = db.base
       /\ Len(db'.attempts) >= Len(db.attempts)
       /\ \A i \in 1..Len(db.attempts) : db'.attempts[i] = db.attempts[i]]_vars

\* an attempt was saved with its embedding, and the card's enrichment was
\* reset afterwards
RowKeptThroughReset ==
    /\ pc = "app"
    /\ op.name = "ResetEnrichment"
    /\ db.attempts # <<>>
    /\ db.attempt_embeddings # {}
    /\ db.attempts[1].card_id = ALL_CARDS[op.card + 1].card_id

\* C10: a run that only executes db_init creates the user_state row
\* (level 1, card index 0) when it is absent and changes nothing else; on a
\* store that has the row it changes nothing at all.
DbInitIdempotent ==
    [][(op'.name \in {"Open", "Rerun"}) =>
          IF db.user_state = <<>>
          THEN db' = [db EXCEPT !.user_state =
                                    <<[char_level |-> LEVEL_MIN, card_index |-> 0]>>]
          ELSE db' = db]_vars

\* the script ran again on a store that held progress: a level above 1, a
\* card past the first, an attempt row
RerunOnUsedStore ==
    /\ pc = "app"
    /\ op.name = "Rerun"
    /\ get_user_state(db).char_level = LEVEL_MIN + 1
    /\ get_user_state(db).card_index = 1
    /\ db.attempts # <<>>
    /\ db.base = 0

\* ------------------------------------------------------------- cosine_similarity, on its own
\* every vector of at most MaxDim components out of CosValues
CosValues == {0 - 1, 0, 1, 2}

RECURSIVE CosVectors(_)
CosVectors(n) ==
    IF n = 0 THEN {<<>>}
    ELSE LET shorter == CosVectors(n - 1)
         IN  shorter \cup {v \o <<x>> : v \in shorter, x \in CosValues}

InitCosine ==
    /\ AppIdle
    /\ pc = "call"
    /\ fin \in [a : CosVectors(MaxDim), b : CosVectors(MaxDim)]
    /\ fout = Sentinel

CallCosine ==
    /\ pc = "call"
    /\ fout' = cosine_similarity(fin.a, fin.b)
    /\ pc' = "done"
    /\ UNCHANGED fin
    /\ AppUnchanged

SpecCosine == InitCosine /\ [][CallCosine]_vars

\* C11: cosine_similarity returns the sentinel -1.0 when a vector is empty,
\* the lengths differ or a vector has zero norm, and it never divides by
\* zero: the product of the norms it divides by is positive.
CosineSentinel ==
    pc = "done" =>
        /\ (\/ fin.a = <<>> \/ fin.b = <<>> \/ Len(fin.a) # Len(fin.b)
            \/ (\A i \in 1..Len(fin.a) : fin.a[i] = 0)
            \/ (\A i \in 1..Len(fin.b) : fin.b[i] = 0)) => fout = Sentinel
        /\ fout.den2 > 0

\* a non-zero vector against the zero vector of its length gave the sentinel
CosineOfZeroVector ==
    /\ pc = "done"
    /\ fin.a = <<1, 2>>
    /\ fin.b = <<0, 0>>
    /\ fout = Sentinel

\* ------------------------------------------------------------- C12
\* the query vector of a recommendation call, and the candidates that have a
\* stored vector once the call is over, each with its similarity to the query.
\* The attempts that are candidates are those list_attempts(limit=300)
\* returns: here, all of them.
QueryVector == embed_text(fin.emb)[1]

CardCandidates ==
    {[item |-> c, score |-> cosine_similarity(QueryVector, get_card_embedding(db, c)[1])] :
        c \in {c \in CardIds : get_card_embedding(db, c) # <<>>}}

AttemptCandidates ==
    {[item |-> k, score |-> cosine_similarity(QueryVector, get_attempt_embedding(db, k)[1])] :
        k \in {k \in 1..Len(db.attempts) : get_attempt_embedding(db, k) # <<>>}}

\* the order of two similarities dot / sqrt(den2), by their signed squares
Lower(x, y) ==
    (IF x.dot >= 0 THEN x.dot * x.dot ELSE 0 - (x.dot * x.dot)) * y.den2
        < (IF y.dot >= 0 THEN y.dot * y.dot ELSE 0 - (y.dot * y.dot)) * x.den2

\* res is a ranking of cands: at most top_k of them, best first, none twice,
\* none left out that beats one returned
RankedFrom(res, cands, top_k) ==
    /\ Len(res) <= top_k
    /\ \A i \in 1..Len(res) : res[i] \in cands
    /\ \A i, j \in 1..Len(res) : i < j =>
          /\ ~Lower(res[i].score, res[j].score)
          /\ res[i].item # res[j].item
    /\ \A c \in cands :
          (\A i \in 1..Len(res) : res[i].item # c.item) =>
              \A i \in 1..Len(res) : ~Lower(res[i].score, c.score)

\* C12: recommend_similar_cards and recommend_similar_attempts return at most
\* top_k (score, item) pairs in non-increasing score order, each a candidate
\* with a stored embedding, no item twice, and no candidate left out scores
\* higher than one returned.
RecommendationsRanked ==
    (pc = "done" /\ fin.kind = "embed" /\ fout.r # <<>>) =>
        /\ fout.fn = "recommend_similar_cards" => RankedFrom(fout.r, CardCandidates, 3)
        /\ fout.fn = "recommend_similar_attempts" => RankedFrom(fout.r, AttemptCandidates, 3)

\* three cards were returned out of more candidates, the first scoring
\* strictly higher than the third, and a candidate was left out
ThreeBestCards ==
    /\ pc = "done"
    /\ fout.fn = "recommend_similar_cards"
    /\ Len(fout.r) = 3
    /\ Lower(fout.r[3].score, fout.r[1].score)
    /\ Cardinality(CardCandidates) > 3

\* ------------------------------------------------------------- the enrichment buttons, on their own
\* Stores that already hold enrichments: the current card (the first or the
\* second) has one written earlier, the other of the two has one, an emptied
\* one or none.  The session presses only the enrichment buttons and the
\* sidebar; MaxEnrich + 1 records may be written, so that a record written
\* here can be overwritten in its turn.
OldEnrichment == [summary |-> <<"old">>, easy |-> <<"old">>, examples |-> <<"old">>]

EnrichedDbs ==
    {[db_init(FreshDb) EXCEPT
        !.user_state = <<[char_level |-> LEVEL_MIN, card_index |-> ci]>>,
        !.card_enrichments[ALL_CARDS[ci + 1].card_id] = <<OldEnrichment>>,
        !.card_enrichments[ALL_CARDS[2 - ci].card_id] = other] :
        ci \in {0, 1}, other \in {<<>>, <<OldEnrichment>>, <<EmptyEnrichment>>}}

InitEnrich ==
    /\ db \in EnrichedDbs
    /\ ss = [s \in Sessions |-> NewSession]
    /\ live = {}
    /\ op = NoOp
    /\ fin = [sessions |-> 1, enrich |-> MaxEnrich + 1]
    /\ fout = <<>>
    /\ pc = "app"

NextEnrich ==
    \E s \in Sessions :
        \/ Open(s)
        \/ Rerun(s)
        \/ SetKey(s)
        \/ RegenerateEnrichment(s)
        \/ ResetEnrichment(s)

SpecEnrich == InitEnrich /\ [][NextEnrich]_vars

\* C13: a reset leaves the card with the all-empty record; a regenerate that
\* wrote leaves it with exactly the three fields enrich_card returned; a
\* regenerate without a client or ended by an exception writes nothing; in
\* each case every other card's record is as it was.
EnrichmentOverwrittenWhole ==
    [][LET card == ALL_CARDS[op'.card + 1]
           c == card.card_id
       IN  /\ op'.name = "ResetEnrichment" =>
                /\ get_card_enrichment(db', c) = EmptyEnrichment
                /\ db'.card_enrichments =
                       [db.card_enrichments EXCEPT ![c] = <<EmptyEnrichment>>]
           /\ op'.name = "RegenerateEnrichment" =>
                IF ~ss[op'.s].openai_api_key \/ op'.exc # NoExc
                THEN db'.card_enrichments = db.card_enrichments
                ELSE \E resp \in AppEnrichResponses :
                        /\ enrich_card(resp, card).exc = NoExc
                        /\ get_card_enrichment(db', c) = enrich_card(resp, card).val
                        /\ db'.card_enrichments =
                               [db.card_enrichments EXCEPT
                                   ![c] = <<enrich_card(resp, card).val>>]]_vars

\* the first record written here replaced the older one of the current card:
\* the model gave a summary and an easy text, and no older field is left
OldEnrichmentReplaced ==
    /\ pc = "app"
    /\ op.name = "RegenerateEnrichment"
    /\ op.exc = NoExc
    /\ fin.enrich = MaxEnrich
    /\ get_card_enrichment(db, ALL_CARDS[op.card + 1].card_id)
           = [summary |-> <<"S">>, easy |-> <<"e">>, examples |-> <<>>]
    /\ db.card_enrichments[ALL_CARDS[2 - op.card].card_id] = <<OldEnrichment>>

\* C14: the row a submission saves records the position the user selected as
\* user_choice_index and is marked correct exactly when that position is
\* answer_index, also for a quiz with repeated choice strings; and every
\* stored row has is_correct = (user_choice_index = answer_index).
SubmitRecordsSelectedPosition ==
    /\ (pc = "app" /\ op.name = "Submit") =>
          LET row == db.attempts[Len(db.attempts)]
          IN  /\ row.user_choice_index = op.pos
              /\ (row.is_correct = 1) <=> (op.pos = row.answer_index)
    /\ pc = "app" =>
          \A i \in 1..Len(db.attempts) :
              (db.attempts[i].is_correct = 1)
                  <=> (db.attempts[i].user_choice_index = db.attempts[i].answer_index)

\* C15: a submission appends exactly one attempts row, in the same run that
\* then stores the user state; the new row's id is above every earlier id;
\* no other step adds a row; and list_attempts(limit) returns the newest
\* rows first, at most limit of them.
SubmissionAppendsOneRow ==
    [][LET n == Len(db.attempts)
       IN  /\ op'.name = "Submit" =>
                /\ Len(db'.attempts) = n + 1
                /\ SubSeq(db'.attempts, 1, n) = db.attempts
                /\ db'.attempts[n + 1].id > db.base
                /\ \A i \in 1..n : db'.attempts[n + 1].id > db.attempts[i].id
                /\ db'.user_state # <<>>
           /\ op'.name # "Submit" => Len(db'.attempts) = n
           /\ op'.name = "Submit" =>
                \A limit \in 0..MaxLimit :
                    \E l \in {list_attempts(db', limit)} :
                    \E lid \in {<<>> \o [i \in 1..Len(l.rows) |-> l.rows[i].id]} :
                        LET ids == {db'.attempts[i].id : i \in 1..(n + 1)}
                            listed == {lid[i] : i \in 1..Len(lid)}
                        IN  /\ Len(lid) + l.old = Min(limit, n + 1 + db'.base)
                            /\ \A i \in 1..(Len(lid) - 1) : lid[i] > lid[i + 1]
                            /\ listed \subseteq ids
                            /\ \A x \in ids \ listed : \A y \in listed : x < y
                            /\ l.old > 0 => listed = ids]_vars

\* a second submission was saved: two rows with increasing ids, and
\* list_attempts(1) returns the second one alone
SecondSubmissionListedFirst ==
    /\ pc = "app"
    /\ op.name = "Submit"
    /\ Len(db.attempts) = 2
    /\ db.attempts[1].id < db.attempts[2].id
    /\ Len(list_attempts(db, 1).rows) = 1
    /\ list_attempts(db, 1).rows[1].id = db.attempts[2].id

\* C16: with one session, the stored card index never decreases and changes
\* only in a NextCard step; NextCard is taken only when the newest attempt
\* row is an attempt on the current card and is correct; it raises the index
\* by exactly 1, except at the last card, where the index stays; and it
\* clears the session's quiz, pending_buttons and last_correct.
CardIndexAdvancesByNextCard ==
    [][db.user_state # <<>> =>
          LET old == db.user_state[1].card_index
              new == db'.user_state[1].card_index
              n == Len(db.attempts)
          IN  /\ db'.user_state # <<>>
              /\ new >= old
              /\ new # old => op'.name = "NextCard"
              /\ op'.name = "NextCard" =>
                    /\ n > 0
                    /\ db.attempts[n].card_id = ALL_CARDS[old + 1].card_id
                    /\ db.attempts[n].is_correct = 1
                    /\ new = IF old = NumCards - 1 THEN old ELSE old + 1
                    /\ ss'[op'.s].quiz = <<>>
                    /\ ss'[op'.s].pending_buttons = FALSE
                    /\ ss'[op'.s].last_correct = <<>>]_vars

\* NextCard was pressed on the last card after a correct answer there: the
\* index stayed, and the session has no quiz any more
NextCardOnLastCard ==
    /\ pc = "app"
    /\ op.name = "NextCard"
    /\ op.card = NumCards - 1
    /\ db.user_state[1].card_index = NumCards - 1
    /\ db.attempts[Len(db.attempts)].card_id = ALL_CARDS[NumCards].card_id
    /\ ss[op.s].quiz = <<>>
    /\ ss[op.s].last_correct = <<>>

\* the attempts rows with is_correct true: the base older rows of a used
\* store, all correct, and the correct ones among the rows spelled out
CorrectRows(d) ==
    d.base + Cardinality({i \in 1..Len(d.attempts) : d.attempts[i].is_correct = 1})

\* C17: with one session, on a store that started fresh, between the runs
\* of the script the stored level is min(100, 1 + the number of attempts rows
\* with is_correct true); and no step lowers the stored level.
LevelCountsCorrectRows ==
    [][/\ db'.user_state # <<>> =>
             db'.user_state[1].char_level = Min(LEVEL_MAX, 1 + CorrectRows(db'))
       /\ (db.user_state # <<>> /\ db'.user_state # <<>>) =>
             db'.user_state[1].char_level >= db.user_state[1].char_level]_vars

\* two rows were saved on a fresh store, the first correct and the second
\* wrong, and the level is 2
LevelTwoAfterRightAndWrong ==
    /\ pc = "app"
    /\ op.name = "Submit"
    /\ db.base = 0
    /\ Len(db.attempts) = 2
    /\ db.attempts[1].is_correct = 1
    /\ db.attempts[2].is_correct = 0
    /\ db.user_state[1].char_level = 2

\* ------------------------------------------------------------- two browser sessions on one store
\* MaxSessions sessions share the store file; each has its own
\* st.session_state.  No API key is entered, so every quiz is the fallback
\* quiz of the card that was current when it was made.
InitShared ==
    /\ db = FreshDb
    /\ ss = [s \in Sessions |-> NewSession]
    /\ live = {}
    /\ op = NoOp
    /\ fin = [sessions |-> MaxSessions, enrich |-> 0]
    /\ fout = <<>>
    /\ pc = "app"

NextShared ==
    \E s \in Sessions :
        \/ Open(s)
        \/ MakeQuiz(s)
        \/ AnotherQuiz(s)
        \/ \E p \in 0..MaxChoice : Submit(s, p)
        \/ NextCard(s)
        \/ StopLearning(s)
        \/ Restart(s)
        \/ ViewAgain(s)
        \/ AnotherAfterWrong(s)

SpecShared == InitShared /\ [][NextShared]_vars

\* C18: a quiz a session holds was generated for the card the stored card
\* index selects now, and the row a submission saves names the card the
\* submitted quiz was generated for; also when another session that shares
\* the store moves the card index.
QuizIsForCurrentCard ==
    pc = "app" =>
        /\ \A s \in live :
              ss[s].quiz # <<>> => ss[s].quiz_for = CurrentCardIndex(db)
        /\ op.name = "Submit" =>
              db.attempts[Len(db.attempts)].card_id
                  = ALL_CARDS[ss[op.s].quiz_for + 1].card_id

\* C19: a quiz raises the level at most once: when the quiz a session holds
\* has been submitted (last_correct is set) and no new quiz was made and the
\* card was not advanced since, a further submission of it does not change
\* the stored level.
QuizRaisesLevelOnce ==
    [][(op'.name = "Submit" /\ ss[op'.s].last_correct # <<>>) =>
          db'.user_state[1].char_level = get_user_state(db).char_level]_vars

====
